---- MODULE Spec2Model ----
(***************************************************************************)
(* Model of packages/bundler-plugin-core/src/options-mapping.ts:           *)
(* normalizeUserOptions and its helpers normalizeEntries, normalizeInclude,*)
(* convertIncludePathToIncludeEntry and normalizeIncludeEntry.             *)
(*                                                                         *)
(* JavaScript values are tagged records.  Arrays are references into a     *)
(* heap (a sequence of arrays, the address being the index), so that the   *)
(* difference between "the same array" and "an equal array" is visible.    *)
(* Strings of `ext` are sequences of characters, so that the regular       *)
(* expression replace of line 172 is computed on the characters.           *)
(***************************************************************************)
EXTENDS Integers, Sequences, FiniteSets, TLC

VARIABLES
  userOptions,  \* the UserOptions object handed to normalizeUserOptions
  env,          \* process.env, restricted to the variables the code reads
  heap,         \* the arrays alive in the program: address -> elements
  heap0,        \* the heap as the caller constructed it (history variable)
  outputs,      \* the InternalOptions values returned so far, oldest first
  pc,           \* "start", "returned" (a call just returned), "mutated"
  mutations     \* the addresses of the arrays mutated in place so far

vars == <<userOptions, env, heap, heap0, outputs, pc, mutations>>

----------------------------------------------------------------------------
(* Bounds of the model *)

MaxCalls == 2
MaxMutations == 1
MaxInclude == 2
MaxEntries == 2
MaxExtStrLen == 3

----------------------------------------------------------------------------
(* JavaScript values *)

Undef == [t |-> "undefined"]
Str(s) == [t |-> "string", s |-> s]
Bool(b) == [t |-> "boolean", b |-> b]
ArrayRef(a) == [t |-> "array", ref |-> a]
Func(n) == [t |-> "function", name |-> n]
RegExp(src) == [t |-> "regexp", source |-> src]
Obj(n) == [t |-> "opaque", id |-> n]

\* faulty variant of ??: a || b, where false and "" fall through as well
NullishAsOr(a, b) ==
  IF a = Undef \/ a = Bool(FALSE) \/ a = Str("") THEN b ELSE a

\* a ?? b: b when a is undefined (or null, which the option types exclude).
\* b is a value here; where b allocates, the caller tests a itself.
Nullish(a, b) == IF a = Undef THEN b ELSE a

\* the result of an expression that may allocate: its value and the heap after it
Result(v, h) == [value |-> v, heap |-> h]

\* an array literal, or the array a map() returns: a new address
Alloc(h, elems) == Result(ArrayRef(Len(h) + 1), Append(h, elems))

----------------------------------------------------------------------------
(* normalizeEntries, lines 104-114 *)

\* faulty variant: Array.isArray forgotten, an array is wrapped too
normalizeEntriesWrapAll(userEntries, h) ==
  IF userEntries = Undef THEN Result(Undef, h)
  ELSE IF userEntries.t = "function" THEN Result(userEntries, h)
  ELSE Alloc(h, <<userEntries>>)

normalizeEntries(userEntries, h) ==
  IF userEntries = Undef THEN Result(Undef, h)
  ELSE IF userEntries.t = "function" \/ userEntries.t = "array"
    THEN Result(userEntries, h)
  ELSE Alloc(h, <<userEntries>>)

----------------------------------------------------------------------------
(* convertIncludePathToIncludeEntry, lines 153-157: an object literal whose *)
(* only property is a new one-element array; absent properties read as      *)
(* undefined.                                                               *)

EntryObject(paths) ==
  [t |-> "object", paths |-> paths, ignore |-> Undef, ignoreFile |-> Undef,
   ext |-> Undef, urlPrefix |-> Undef, urlSuffix |-> Undef,
   stripPrefix |-> Undef, stripCommonPrefix |-> Undef,
   sourceMapReference |-> Undef, rewrite |-> Undef, validate |-> Undef]

\* faulty variant: paths: [] instead of paths: [includePath]
convertIncludePathDropsPath(includePath, h) ==
  LET a == Alloc(h, <<>>) IN Result(EntryObject(a.value), a.heap)

convertIncludePathToIncludeEntry(includePath, h) ==
  LET a == Alloc(h, <<includePath.s>>) IN Result(EntryObject(a.value), a.heap)

----------------------------------------------------------------------------
(* normalizeIncludeEntry, lines 163-187 *)

\* line 167: includeEntry.ignore ?? userOptions.ignore ?? ["node_modules"];
\* the array literal is evaluated, and so allocated, only when both are undefined
ignoreOption(uo, includeEntry, h) ==
  IF Nullish(includeEntry.ignore, uo.ignore) = Undef
    THEN Alloc(h, <<"node_modules">>)
    ELSE Result(Nullish(includeEntry.ignore, uo.ignore), h)

\* line 168: Array.isArray(ignoreOption) ? ignoreOption : [ignoreOption]
\* faulty variant: the array-ifying of line 168 forgotten
ignoreArrayNotWrapped(ignoreOpt, h) == Result(ignoreOpt, h)

ignoreArray(ignoreOpt, h) ==
  IF ignoreOpt.t = "array" THEN Result(ignoreOpt, h)
  ELSE Alloc(h, <<ignoreOpt.s>>)

DefaultExt ==
  << <<"j", "s">>, <<"m", "a", "p">>,
     <<"j", "s", "b", "u", "n", "d", "l", "e">>,
     <<"b", "u", "n", "d", "l", "e">> >>

\* line 171: includeEntry.ext ?? userOptions.ext ?? ["js", "map", "jsbundle", "bundle"]
\* faulty variant: an empty ext treated as an omitted one
extOptionEmptyIsAbsent(uo, includeEntry, h) ==
  LET present(x) == x # Undef /\ Len(h[x.ref]) > 0 IN
  IF present(includeEntry.ext) THEN Result(includeEntry.ext, h)
  ELSE IF present(uo.ext) THEN Result(uo.ext, h)
  ELSE Alloc(h, DefaultExt)

extOption(uo, includeEntry, h) ==
  IF Nullish(includeEntry.ext, uo.ext) = Undef
    THEN Alloc(h, DefaultExt)
    ELSE Result(Nullish(includeEntry.ext, uo.ext), h)

\* line 172, the callback: `.${extension.replace(/^\./, "")}`
\* replace with a non-global pattern anchored at the start removes at most
\* the first character, and only if it is a dot
\* faulty variant: the dot added without removing one first
DotPrefixNoStrip(extension) == <<".">> \o extension

DotPrefix(extension) ==
  <<".">> \o (IF Len(extension) > 0 /\ Head(extension) = "."
                THEN Tail(extension) ELSE extension)

\* line 172: ext.map(...) returns a new array of the same length
\* faulty variant: the strings rewritten in the array itself (forEach, not map)
dotPrefixedExtInPlace(extValue, h) ==
  Result(extValue,
         [h EXCEPT ![extValue.ref] =
            [i \in 1..Len(h[extValue.ref]) |-> DotPrefix(h[extValue.ref][i])]])

\* faulty variant: an empty ext returned as it is, without map()
dotPrefixedExtReusesEmpty(extValue, h) ==
  IF h[extValue.ref] = <<>> THEN Result(extValue, h)
  ELSE Alloc(h, [i \in 1..Len(h[extValue.ref]) |-> DotPrefix(h[extValue.ref][i])])

dotPrefixedExt(extValue, h) ==
  Alloc(h, [i \in 1..Len(h[extValue.ref]) |-> DotPrefix(h[extValue.ref][i])])

\* lines 174-186: the object literal returned
normalizeIncludeEntry(uo, includeEntry, h) ==
  LET io == ignoreOption(uo, includeEntry, h)
      ig == ignoreArray(io.value, io.heap)
      eo == extOption(uo, includeEntry, ig.heap)
      de == dotPrefixedExt(eo.value, eo.heap)
  IN Result(
       [paths |-> includeEntry.paths,
        ignore |-> ig.value,
        ignoreFile |-> Nullish(includeEntry.ignoreFile, uo.ignoreFile),
        ext |-> de.value,
        urlPrefix |-> Nullish(includeEntry.urlPrefix, uo.urlPrefix),
        urlSuffix |-> Nullish(includeEntry.urlSuffix, uo.urlSuffix),
        stripPrefix |-> Nullish(includeEntry.stripPrefix, uo.stripPrefix),
        stripCommonPrefix |->
          Nullish(Nullish(includeEntry.stripCommonPrefix, uo.stripCommonPrefix),
                  Bool(FALSE)),
        sourceMapReference |->
          Nullish(Nullish(includeEntry.sourceMapReference, uo.sourceMapReference),
                  Bool(TRUE)),
        rewrite |-> Nullish(Nullish(includeEntry.rewrite, uo.rewrite), Bool(TRUE)),
        validate |-> Nullish(Nullish(includeEntry.validate, uo.validate), Bool(FALSE))],
       de.heap)

----------------------------------------------------------------------------
(* normalizeInclude, lines 130-151 *)

\* lines 137-143: rawUserInclude.map(...), element by element from the left
RECURSIVE ConvertElements(_, _)
ConvertElements(elements, h) ==
  IF elements = <<>> THEN Result(<<>>, h)
  ELSE LET first == IF Head(elements).t = "string"
                      THEN convertIncludePathToIncludeEntry(Head(elements), h)
                      ELSE Result(Head(elements), h)
           rest == ConvertElements(Tail(elements), first.heap)
       IN Result(<<first.value>> \o rest.value, rest.heap)

\* lines 133-146: the three shapes of `include` made one array of entry objects
\* faulty variant: the path strings of an include array dropped
userIncludeSkipsStrings(rawUserInclude, h) ==
  IF rawUserInclude.t = "string"
    THEN LET c == convertIncludePathToIncludeEntry(rawUserInclude, h)
         IN Result(<<c.value>>, c.heap)
  ELSE IF rawUserInclude.t = "array"
    THEN Result(SelectSeq(h[rawUserInclude.ref], LAMBDA x : x.t = "object"), h)
  ELSE Result(<<rawUserInclude>>, h)

userInclude(rawUserInclude, h) ==
  IF rawUserInclude.t = "string"
    THEN LET c == convertIncludePathToIncludeEntry(rawUserInclude, h)
         IN Result(<<c.value>>, c.heap)
  ELSE IF rawUserInclude.t = "array"
    THEN ConvertElements(h[rawUserInclude.ref], h)
  ELSE Result(<<rawUserInclude>>, h)

\* lines 148-150: userInclude.map(normalizeIncludeEntry), from the left
RECURSIVE NormalizeEntries(_, _, _)
NormalizeEntries(uo, entryObjects, h) ==
  IF entryObjects = <<>> THEN Result(<<>>, h)
  ELSE LET first == normalizeIncludeEntry(uo, Head(entryObjects), h)
           rest == NormalizeEntries(uo, Tail(entryObjects), first.heap)
       IN Result(<<first.value>> \o rest.value, rest.heap)

\* The array map() returns is new and holds new objects; it is kept as a
\* sequence value and only the arrays inside the entries are heap references.
normalizeInclude(uo, h) ==
  LET ui == userInclude(uo.include, h)
  IN NormalizeEntries(uo, ui.value, ui.heap)

----------------------------------------------------------------------------
(* normalizeUserOptions, lines 59-99 *)

\* faulty variant: process.env never consulted
normalizeUserOptionsEnvIgnored(uo, e, h) ==
  LET inc == normalizeInclude(uo, h)
      ent == normalizeEntries(uo.entries, inc.heap)
  IN Result(
       [include |-> inc.value,
        org |-> uo.org,
        project |-> uo.project,
        release |-> Nullish(uo.release, Str("")),
        authToken |-> uo.authToken,
        customHeader |-> uo.customHeader,
        url |-> Nullish(uo.url, Str("https://sentry.io/")),
        vcsRemote |-> Nullish(uo.vcsRemote, Str("origin")),
        finalize |-> Nullish(uo.finalize, Bool(TRUE)),
        cleanArtifacts |-> Nullish(uo.cleanArtifacts, Bool(FALSE)),
        dryRun |-> Nullish(uo.dryRun, Bool(FALSE)),
        debug |-> Nullish(uo.debug, Bool(FALSE)),
        silent |-> Nullish(uo.silent, Bool(FALSE)),
        telemetry |-> Nullish(uo.telemetry, Bool(TRUE)),
        injectReleasesMap |-> Nullish(uo.injectReleasesMap, Bool(FALSE)),
        setCommits |-> uo.setCommits,
        deploy |-> uo.deploy,
        entries |-> ent.value,
        dist |-> uo.dist,
        errorHandler |-> uo.errorHandler,
        configFile |-> uo.configFile],
       ent.heap)

normalizeUserOptions(uo, e, h) ==
  LET inc == normalizeInclude(uo, h)
      ent == normalizeEntries(uo.entries, inc.heap)
  IN Result(
       [include |-> inc.value,
        org |-> Nullish(uo.org, e["SENTRY_ORG"]),
        project |-> Nullish(uo.project, e["SENTRY_PROJECT"]),
        release |-> Nullish(Nullish(uo.release, e["SENTRY_RELEASE"]), Str("")),
        authToken |-> Nullish(uo.authToken, e["SENTRY_AUTH_TOKEN"]),
        customHeader |-> Nullish(uo.customHeader, e["CUSTOM_HEADER"]),
        url |-> Nullish(Nullish(uo.url, e["SENTRY_URL"]), Str("https://sentry.io/")),
        vcsRemote |-> Nullish(Nullish(uo.vcsRemote, e["SENTRY_VCS_REMOTE"]), Str("origin")),
        finalize |-> Nullish(uo.finalize, Bool(TRUE)),
        cleanArtifacts |-> Nullish(uo.cleanArtifacts, Bool(FALSE)),
        dryRun |-> Nullish(uo.dryRun, Bool(FALSE)),
        debug |-> Nullish(uo.debug, Bool(FALSE)),
        silent |-> Nullish(uo.silent, Bool(FALSE)),
        telemetry |-> Nullish(uo.telemetry, Bool(TRUE)),
        injectReleasesMap |-> Nullish(uo.injectReleasesMap, Bool(FALSE)),
        setCommits |-> uo.setCommits,
        deploy |-> uo.deploy,
        entries |-> ent.value,
        dist |-> uo.dist,
        errorHandler |-> uo.errorHandler,
        configFile |-> uo.configFile],
       ent.heap)

----------------------------------------------------------------------------
(* The inputs: the user options a caller can construct (types.ts Options   *)
(* and IncludeEntry, as imported on line 1) and the environment.           *)

EnvFields == {"org", "project", "release", "authToken", "customHeader", "url", "vcsRemote"}
FlagFields == {"finalize", "cleanArtifacts", "dryRun", "debug", "silent", "telemetry",
               "injectReleasesMap"}
PassFields == {"dist", "errorHandler", "setCommits", "deploy", "configFile"}
HoistFlags == {"stripCommonPrefix", "sourceMapReference", "rewrite", "validate"}
HoistStrings == {"ignoreFile", "urlPrefix", "urlSuffix", "stripPrefix"}

EnvName(f) ==
  CASE f = "org" -> "SENTRY_ORG"
    [] f = "project" -> "SENTRY_PROJECT"
    [] f = "release" -> "SENTRY_RELEASE"
    [] f = "authToken" -> "SENTRY_AUTH_TOKEN"
    [] f = "customHeader" -> "CUSTOM_HEADER"
    [] f = "url" -> "SENTRY_URL"
    [] f = "vcsRemote" -> "SENTRY_VCS_REMOTE"

EnvNames == {EnvName(f) : f \in EnvFields}

\* a value for an array-valued option before it is laid out in the heap
Items(xs) == [t |-> "items", items |-> xs]
ToValue(a, addr) == IF a.t = "items" THEN ArrayRef(addr) ELSE a
Slot(a) == IF a.t = "items" THEN a.items ELSE <<>>

NoOpts == [f \in HoistFlags \cup HoistStrings |-> Undef]

PathElem(p) == [kind |-> "string", path |-> p]
ObjElem(ps, ig, ex, o) == [kind |-> "object", paths |-> ps, ignore |-> ig, ext |-> ex, opts |-> o]

\* Heap layout of an input: 1 top-level ignore, 2 top-level ext, 3 entries,
\* 4 the include array, then three addresses per include element (paths,
\* ignore, ext).  An address whose option is not an array holds an empty
\* array nothing refers to.
PathsAddr(i) == 3 * i + 2
IgnoreAddr(i) == 3 * i + 3
ExtAddr(i) == 3 * i + 4

ElemValue(elems, i) ==
  IF elems[i].kind = "string" THEN Str(elems[i].path)
  ELSE [t |-> "object", paths |-> ArrayRef(PathsAddr(i)),
        ignore |-> ToValue(elems[i].ignore, IgnoreAddr(i)),
        ignoreFile |-> elems[i].opts.ignoreFile,
        ext |-> ToValue(elems[i].ext, ExtAddr(i)),
        urlPrefix |-> elems[i].opts.urlPrefix,
        urlSuffix |-> elems[i].opts.urlSuffix,
        stripPrefix |-> elems[i].opts.stripPrefix,
        stripCommonPrefix |-> elems[i].opts.stripCommonPrefix,
        sourceMapReference |-> elems[i].opts.sourceMapReference,
        rewrite |-> elems[i].opts.rewrite,
        validate |-> elems[i].opts.validate]

InputHeap(topIgnore, topExt, ents, shape, elems) ==
  [a \in 1..(4 + 3 * Len(elems)) |->
     IF a = 1 THEN Slot(topIgnore)
     ELSE IF a = 2 THEN Slot(topExt)
     ELSE IF a = 3 THEN Slot(ents)
     ELSE IF a = 4 THEN (IF shape = "array"
                           THEN [i \in 1..Len(elems) |-> ElemValue(elems, i)]
                           ELSE <<>>)
     ELSE LET i == (a - 5) \div 3 + 1
              e == elems[i]
          IN IF e.kind = "string" THEN <<>>
             ELSE IF a = PathsAddr(i) THEN e.paths
             ELSE IF a = IgnoreAddr(i) THEN Slot(e.ignore)
             ELSE Slot(e.ext)]

\* the user options with every scalar omitted
InputOptions(topIgnore, topExt, topOpts, ents, shape, elems) ==
  [include |-> IF shape = "array" THEN ArrayRef(4) ELSE ElemValue(elems, 1),
   entries |-> ToValue(ents, 3),
   ignore |-> ToValue(topIgnore, 1),
   ext |-> ToValue(topExt, 2),
   ignoreFile |-> topOpts.ignoreFile,
   urlPrefix |-> topOpts.urlPrefix,
   urlSuffix |-> topOpts.urlSuffix,
   stripPrefix |-> topOpts.stripPrefix,
   stripCommonPrefix |-> topOpts.stripCommonPrefix,
   sourceMapReference |-> topOpts.sourceMapReference,
   rewrite |-> topOpts.rewrite,
   validate |-> topOpts.validate,
   org |-> Undef, project |-> Undef, release |-> Undef, authToken |-> Undef,
   customHeader |-> Undef, url |-> Undef, vcsRemote |-> Undef,
   finalize |-> Undef, cleanArtifacts |-> Undef, dryRun |-> Undef, debug |-> Undef,
   silent |-> Undef, telemetry |-> Undef, injectReleasesMap |-> Undef,
   dist |-> Undef, errorHandler |-> Undef, setCommits |-> Undef, deploy |-> Undef,
   configFile |-> Undef]

NoEnv == [n \in EnvNames |-> Undef]

Input(uo, e, h) == [uo |-> uo, env |-> e, heap |-> h]

Tri == {Undef, Bool(TRUE), Bool(FALSE)}
Presence == {"undefined", "set", "empty"}
Pick(k, v) == CASE k = "undefined" -> Undef [] k = "set" -> v [] k = "empty" -> Str("")

OnePath == <<PathElem("dist")>>
BaseOptions == InputOptions(Undef, Undef, NoOpts, Undef, "string", OnePath)
BaseHeap == InputHeap(Undef, Undef, Undef, "string", OnePath)

\* one scalar with an environment fallback varied over user value and
\* variable, the six others all given or all omitted
ScalarStringInputs ==
  { Input([f \in DOMAIN BaseOptions |->
             IF f = focus THEN Pick(own, Str("user:" \o f))
             ELSE IF f \in EnvFields /\ bgUser THEN Str("user:" \o f)
             ELSE BaseOptions[f]],
          [n \in EnvNames |->
             IF n = EnvName(focus) THEN Pick(ev, Str("env:" \o n))
             ELSE IF bgEnv THEN Str("env:" \o n) ELSE Undef],
          BaseHeap) :
      <<focus, own, ev, bgUser, bgEnv>> \in
        EnvFields \X Presence \X Presence \X BOOLEAN \X BOOLEAN }

\* one flag varied, the six others all at one value
FlagInputs ==
  { Input([f \in DOMAIN BaseOptions |->
             IF f = focus THEN own
             ELSE IF f \in FlagFields THEN bg ELSE BaseOptions[f]],
          NoEnv, BaseHeap) :
      <<focus, own, bg>> \in FlagFields \X Tri \X Tri }

PassValue(f) ==
  CASE f = "dist" -> Str("dist-1")
    [] f = "errorHandler" -> Func("errorHandler")
    [] f = "setCommits" -> Obj("setCommits")
    [] f = "deploy" -> Obj("deploy")
    [] f = "configFile" -> Str("sentry.properties")

PassInputs ==
  { Input([f \in DOMAIN BaseOptions |->
             IF f \in given THEN PassValue(f) ELSE BaseOptions[f]],
          NoEnv, BaseHeap) :
      given \in SUBSET PassFields }

Matchers == {Str("a.js"), RegExp("b")}
EntriesValues ==
  {Undef, Str("foo.js"), RegExp("foo"), Func("isEntry")}
    \cup { Items(ms) : ms \in UNION { [1..n -> Matchers] : n \in 0..MaxEntries } }

EntriesInputs ==
  { Input(InputOptions(Undef, Undef, NoOpts, ents, "string", OnePath), NoEnv,
          InputHeap(Undef, Undef, ents, "string", OnePath)) :
      ents \in EntriesValues }

IgnoreValues == {Undef, Str("one-ignore"), Items(<<>>), Items(<<"i1", "i2">>)}
ExtValues == {Undef, Items(<<>>), Items(<< <<"j">> >>)}

SingleObjects ==
  { <<ObjElem(<<"src", "lib">>, ig, ex, NoOpts)>> : <<ig, ex>> \in IgnoreValues \X ExtValues }

ArrayElements ==
  { PathElem("a.js"),
    ObjElem(<<"c.js">>, Undef, Undef, NoOpts),
    ObjElem(<<"d.js", "e.js">>, Str("own-ignore"), Items(<<>>), NoOpts),
    ObjElem(<<>>, Items(<<"o1">>), Items(<< <<".", "j">> >>), NoOpts) }

IncludeArrays == UNION { [1..n -> ArrayElements] : n \in 0..MaxInclude }

\* top-level ignore and ext given to every element of an include array
ArrayTops ==
  { <<Undef, Undef>>, <<Str("one-ignore"), Items(<< <<"j">> >>)>>,
    <<Items(<<"i1", "i2">>), Items(<<>>)>> }

IncludeInputs ==
  { Input(InputOptions(ti, te, NoOpts, Undef, sh[1], sh[2]), NoEnv,
          InputHeap(ti, te, Undef, sh[1], sh[2])) :
      <<ti, te, sh>> \in
        IgnoreValues \X ExtValues
          \X ({ <<"string", OnePath>> } \cup { <<"object", o>> : o \in SingleObjects }) }
  \cup
  { Input(InputOptions(top[1], top[2], NoOpts, Undef, "array", es), NoEnv,
          InputHeap(top[1], top[2], Undef, "array", es)) :
      <<top, es>> \in ArrayTops \X IncludeArrays }

\* the strings over a dot and a letter, the empty string included
ExtStrings == UNION { [1..n -> {".", "j"}] : n \in 0..MaxExtStrLen }
\* arrays of one string, and of two with a plain "j" before or after
ExtArrays ==
  { <<s>> : s \in ExtStrings } \cup { <<s, <<"j">> >> : s \in ExtStrings }
    \cup { << <<"j">>, s>> : s \in ExtStrings }

\* an own ext over a top-level one, and a top-level ext alone
ExtInputs ==
  { Input(InputOptions(Undef, Items(<< <<".", "j">> >>), NoOpts, Undef, "object",
                       <<ObjElem(<<"src">>, Undef, Items(xs), NoOpts)>>), NoEnv,
          InputHeap(Undef, Items(<< <<".", "j">> >>), Undef, "object",
                    <<ObjElem(<<"src">>, Undef, Items(xs), NoOpts)>>)) :
      xs \in ExtArrays }
  \cup
  { Input(InputOptions(Undef, Items(<<s>>), NoOpts, Undef, "string", OnePath), NoEnv,
          InputHeap(Undef, Items(<<s>>), Undef, "string", OnePath)) :
      s \in ExtStrings }

\* include: ["a.js", {paths: ["b.js"], ...own}] with top-level options top
HoistInput(own, top) ==
  LET elems == <<PathElem("a.js"), ObjElem(<<"b.js">>, Undef, Undef, own)>>
  IN Input(InputOptions(Undef, Undef, top, Undef, "array", elems), NoEnv,
           InputHeap(Undef, Undef, Undef, "array", elems))

HoistFlagInputs ==
  { HoistInput([f \in DOMAIN NoOpts |->
                  IF f = focus THEN own ELSE IF f \in HoistFlags THEN bg ELSE Undef],
               [f \in DOMAIN NoOpts |->
                  IF f = focus THEN top ELSE IF f \in HoistFlags THEN bg ELSE Undef]) :
      <<focus, own, top, bg>> \in HoistFlags \X Tri \X Tri \X Tri }

HoistStringInputs ==
  { HoistInput([f \in DOMAIN NoOpts |->
                  IF f = focus THEN Pick(own, Str("own:" \o f)) ELSE Undef],
               [f \in DOMAIN NoOpts |->
                  IF f = focus THEN Pick(top, Str("top:" \o f))
                  ELSE IF f \in HoistStrings /\ bg THEN Str("top:" \o f) ELSE Undef]) :
      <<focus, own, top, bg>> \in HoistStrings \X Presence \X Presence \X BOOLEAN }

Inputs ==
  ScalarStringInputs \cup FlagInputs \cup PassInputs \cup EntriesInputs
    \cup IncludeInputs \cup ExtInputs \cup HoistFlagInputs \cup HoistStringInputs

----------------------------------------------------------------------------
(* The state machine: a build pipeline calls normalizeUserOptions on the   *)
(* options it was given, and the owner of a returned value may change the  *)
(* arrays in it in place.                                                  *)

Init ==
  \E in \in Inputs :
    /\ userOptions = in.uo
    /\ env = in.env
    /\ heap = in.heap
    /\ heap0 = in.heap
    /\ outputs = <<>>
    /\ pc = "start"
    /\ mutations = {}

\* one call of normalizeUserOptions(userOptions), lines 59-99
Normalize ==
  /\ Len(outputs) < MaxCalls
  /\ LET r == normalizeUserOptions(userOptions, env, heap)
     IN /\ outputs' = Append(outputs, r.value)
        /\ heap' = r.heap
  /\ pc' = "returned"
  /\ UNCHANGED <<userOptions, env, heap0, mutations>>

\* array.push(x) on the array at address a; an array is pushed to at most once
Push(a, x) ==
  /\ a \notin mutations
  /\ Cardinality(mutations) < MaxMutations
  /\ heap' = [heap EXCEPT ![a] = Append(@, x)]
  /\ mutations' = mutations \cup {a}
  /\ pc' = "mutated"
  /\ UNCHANGED <<userOptions, env, heap0, outputs>>

\* the value the latest call returned
Last == outputs[Len(outputs)]

MutatePaths ==
  /\ outputs # <<>>
  /\ \E i \in 1..Len(Last.include) : Push(Last.include[i].paths.ref, "pushed")

MutateIgnore ==
  /\ outputs # <<>>
  /\ \E i \in 1..Len(Last.include) : Push(Last.include[i].ignore.ref, "pushed")

MutateExt ==
  /\ outputs # <<>>
  /\ \E i \in 1..Len(Last.include) : Push(Last.include[i].ext.ref, <<".", "p">>)

MutateEntries ==
  /\ outputs # <<>>
  /\ Last.entries.t = "array"
  /\ Push(Last.entries.ref, Str("pushed"))

Next == Normalize \/ MutatePaths \/ MutateIgnore \/ MutateExt \/ MutateEntries

Spec == Init /\ [][Next]_vars

----------------------------------------------------------------------------
(* What the properties read *)

Returned == pc = "returned"

\* the elements of the user's `include`, whatever its shape
InputElements ==
  IF userOptions.include.t = "array" THEN heap[userOptions.include.ref]
  ELSE <<userOptions.include>>

\* the entry's own value of option f: a bare path string has none
Own(i, f) == IF InputElements[i].t = "string" THEN Undef ELSE InputElements[i][f]

Present(v) == v.t # "undefined"
FirstPresent(own, top, default) ==
  IF Present(own) THEN own ELSE IF Present(top) THEN top ELSE default

\* the elements an `ignore` value stands for
AsList(v) == IF v.t = "string" THEN <<v.s>> ELSE heap[v.ref]

HoistFlagDefault(f) ==
  CASE f = "stripCommonPrefix" -> Bool(FALSE)
    [] f = "sourceMapReference" -> Bool(TRUE)
    [] f = "rewrite" -> Bool(TRUE)
    [] f = "validate" -> Bool(FALSE)

\* the `ext` the entry resolves to before dot-prefixing
ResolvedExt(i) ==
  IF Present(Own(i, "ext")) THEN heap[Own(i, "ext").ref]
  ELSE IF Present(userOptions.ext) THEN heap[userOptions.ext.ref]
  ELSE << <<"j", "s">>, <<"m", "a", "p">>,
          <<"j", "s", "b", "u", "n", "d", "l", "e">>, <<"b", "u", "n", "d", "l", "e">> >>

ResolvedIgnore(i) ==
  IF Present(Own(i, "ignore")) THEN AsList(Own(i, "ignore"))
  ELSE IF Present(userOptions.ignore) THEN AsList(userOptions.ignore)
  ELSE <<"node_modules">>

RECURSIVE LeadingDots(_)
LeadingDots(s) == IF s # <<>> /\ Head(s) = "." THEN 1 + LeadingDots(Tail(s)) ELSE 0

RECURSIVE WithoutLeadingDots(_)
WithoutLeadingDots(s) ==
  IF s # <<>> /\ Head(s) = "." THEN WithoutLeadingDots(Tail(s)) ELSE s

OneDotBefore(s) == IF s # <<>> /\ Head(s) = "." THEN s ELSE <<".">> \o s

OutExt(i) == heap[Last.include[i].ext.ref]
OutIgnore(i) == heap[Last.include[i].ignore.ref]

----------------------------------------------------------------------------
(* C1: every hoistable field of every output entry is the first present of *)
(* the entry's own value, the top-level option of the same name and the    *)
(* hardcoded default; the four fields without a default stay unset when    *)
(* neither supplies them; an own value, false included, is never replaced. *)
C1_HoistedFirstPresent ==
  Returned =>
    \A i \in 1..Len(Last.include) :
      /\ \A f \in HoistFlags :
           Last.include[i][f] = FirstPresent(Own(i, f), userOptions[f], HoistFlagDefault(f))
      /\ \A f \in HoistStrings :
           Last.include[i][f] = FirstPresent(Own(i, f), userOptions[f], Undef)
      /\ OutIgnore(i) = ResolvedIgnore(i)
      /\ OutExt(i) = [j \in 1..Len(ResolvedExt(i)) |-> OneDotBefore(ResolvedExt(i)[j])]

C1_Witness ==
  /\ Returned
  /\ \E i \in 1..Len(Last.include) :
       /\ Own(i, "validate") = Bool(FALSE)
       /\ userOptions.validate = Bool(TRUE)
       /\ Last.include[i].validate = Bool(FALSE)

(* C2: every scalar of the output is the first present of the user value,  *)
(* the field's environment variable (seven fields have one) and the        *)
(* default; the pass-through fields are the user's; release and the seven  *)
(* flags are never unset.                                                  *)
ScalarDefault(f) ==
  CASE f = "release" -> Str("")
    [] f = "url" -> Str("https://sentry.io/")
    [] f = "vcsRemote" -> Str("origin")
    [] f \in {"finalize", "telemetry"} -> Bool(TRUE)
    [] f \in {"cleanArtifacts", "dryRun", "debug", "silent", "injectReleasesMap"} -> Bool(FALSE)
    [] OTHER -> Undef

C2_ScalarsFirstPresent ==
  Returned =>
    /\ \A f \in EnvFields :
         Last[f] = FirstPresent(userOptions[f], env[EnvName(f)], ScalarDefault(f))
    /\ \A f \in FlagFields :
         Last[f] = FirstPresent(userOptions[f], Undef, ScalarDefault(f))
    /\ \A f \in PassFields : Last[f] = userOptions[f]
    /\ \A f \in {"release"} \cup FlagFields : Present(Last[f])

C2_Witness ==
  /\ Returned
  /\ ~Present(userOptions.release)
  /\ Present(env["SENTRY_RELEASE"])
  /\ Last.release = env["SENTRY_RELEASE"]
  /\ ~Present(userOptions.org) /\ ~Present(env["SENTRY_ORG"]) /\ ~Present(Last.org)

(* C3: a path string or an entry object gives one output entry, a sequence *)
(* of n elements gives n in the same order; the i-th output has paths [s]  *)
(* for the string s and the element's own paths for an object; an entry    *)
(* made from a string has no own options, so its other fields are the      *)
(* top-level option or the default.                                        *)
C3_ShapeUnified ==
  Returned =>
    /\ Len(Last.include) = Len(InputElements)
    /\ \A i \in 1..Len(InputElements) :
         IF InputElements[i].t = "string"
           THEN /\ heap[Last.include[i].paths.ref] = <<InputElements[i].s>>
                /\ \A f \in HoistFlags :
                     Last.include[i][f] = FirstPresent(userOptions[f], Undef, HoistFlagDefault(f))
                /\ \A f \in HoistStrings : Last.include[i][f] = userOptions[f]
                /\ OutIgnore(i) = (IF Present(userOptions.ignore)
                                     THEN AsList(userOptions.ignore) ELSE <<"node_modules">>)
                /\ OutExt(i) =
                     (LET top == IF Present(userOptions.ext)
                                   THEN heap[userOptions.ext.ref] ELSE DefaultExt
                      IN [j \in 1..Len(top) |-> OneDotBefore(top[j])])
           ELSE heap[Last.include[i].paths.ref] = heap[InputElements[i].paths.ref]

C3_Witness ==
  /\ Returned
  /\ userOptions.include.t = "array"
  /\ Len(InputElements) = MaxInclude
  /\ InputElements[1].t = "string"
  /\ InputElements[MaxInclude].t = "object"
  /\ Len(Last.include) = MaxInclude
  /\ heap[Last.include[1].paths.ref] = <<InputElements[1].s>>

(* C4, as stated: every string of every output `ext` begins with one dot   *)
(* and not with two, whatever the input strings, and `ext` keeps its       *)
(* length.                                                                 *)
C4_ExactlyOneDot ==
  Returned =>
    \A i \in 1..Len(Last.include) :
      /\ Len(OutExt(i)) = Len(ResolvedExt(i))
      /\ \A j \in 1..Len(OutExt(i)) : LeadingDots(OutExt(i)[j]) = 1

(* C4, amended: every string of every output `ext` begins with a dot; it   *)
(* has exactly one leading dot when the input string had none or one, and  *)
(* keeps all its k leading dots when it had k >= 2; what follows the dots, *)
(* the length and the order of `ext` are the input's.                      *)
C4_DotPrefixed ==
  Returned =>
    \A i \in 1..Len(Last.include) :
      /\ Len(OutExt(i)) = Len(ResolvedExt(i))
      /\ \A j \in 1..Len(OutExt(i)) :
           /\ LeadingDots(OutExt(i)[j]) =
                (IF LeadingDots(ResolvedExt(i)[j]) <= 1 THEN 1
                 ELSE LeadingDots(ResolvedExt(i)[j]))
           /\ WithoutLeadingDots(OutExt(i)[j]) = WithoutLeadingDots(ResolvedExt(i)[j])

C4_Witness ==
  /\ Returned
  /\ \E i \in 1..Len(Last.include) : \E j \in 1..Len(OutExt(i)) :
       /\ LeadingDots(ResolvedExt(i)[j]) >= 2
       /\ LeadingDots(OutExt(i)[j]) >= 2

(* C5: `ignore` of every output entry is a sequence, never a bare string:  *)
(* without an own `ignore` it is the top-level one (a bare string wrapped  *)
(* into one element) or ["node_modules"]; an own bare string is wrapped.   *)
C5_IgnoreIsSequence ==
  Returned =>
    \A i \in 1..Len(Last.include) :
      /\ Last.include[i].ignore.t = "array"
      /\ Last.include[i].ignore.ref \in DOMAIN heap
      /\ ~Present(Own(i, "ignore")) =>
           OutIgnore(i) =
             (IF ~Present(userOptions.ignore) THEN <<"node_modules">>
              ELSE IF userOptions.ignore.t = "string" THEN <<userOptions.ignore.s>>
              ELSE heap[userOptions.ignore.ref])
      /\ Own(i, "ignore").t = "string" => OutIgnore(i) = <<Own(i, "ignore").s>>

C5_Witness ==
  /\ Returned
  /\ userOptions.ignore.t = "string"
  /\ \E i \in 1..Len(Last.include) :
       /\ ~Present(Own(i, "ignore"))
       /\ Last.include[i].ignore.t = "array"
       /\ OutIgnore(i) = <<userOptions.ignore.s>>

(* C6: `entries` unset stays unset; a predicate function or a sequence of  *)
(* matchers is returned as it is; a bare matcher becomes a one-element     *)
(* sequence; the output is never a bare matcher.                           *)
C6_EntriesNormalized ==
  Returned =>
    /\ ~Present(userOptions.entries) => Last.entries = Undef
    /\ userOptions.entries.t \in {"function", "array"} => Last.entries = userOptions.entries
    /\ userOptions.entries.t \in {"string", "regexp"} =>
         /\ Last.entries.t = "array"
         /\ heap[Last.entries.ref] = <<userOptions.entries>>
    /\ Last.entries.t \in {"undefined", "function", "array"}

C6_Witness ==
  /\ Returned
  /\ userOptions.entries.t = "regexp"
  /\ Last.entries.t = "array"
  /\ heap[Last.entries.ref] = <<userOptions.entries>>

(* C7, as stated: whenever `include` is given in an allowed shape, a       *)
(* sequence of any length included, the output `include` is non-empty.     *)
C7_IncludeNeverEmpty == Returned => Len(Last.include) >= 1

(* C7, amended: the output `include` is non-empty when `include` is a path *)
(* string, an entry object or a non-empty sequence, and is the empty       *)
(* sequence when `include` is an empty sequence.                           *)
C7_EmptyOnlyForEmptySequence ==
  Returned =>
    (Last.include = <<>>) =
      (userOptions.include.t = "array" /\ heap[userOptions.include.ref] = <<>>)

C7_Witness ==
  /\ Returned
  /\ userOptions.include.t = "array"
  /\ heap[userOptions.include.ref] = <<>>
  /\ Last.include = <<>>

----------------------------------------------------------------------------
(* Sharing between the arrays of the outputs and those of the input *)

\* the arrays the caller constructed
InputAddrs == 1..Len(heap0)

InputIntact == \A a \in InputAddrs : heap[a] = heap0[a]

\* the places of the outputs that hold an array: <<call, entry, field>>
Positions ==
  UNION { ({k} \X (1..Len(outputs[k].include)) \X {"paths", "ignore", "ext"})
            \cup (IF outputs[k].entries.t = "array" THEN {<<k, 0, "entries">>} ELSE {}) :
          k \in 1..Len(outputs) }

RefAt(p) ==
  IF p[3] = "entries" THEN outputs[p[1]].entries.ref
  ELSE outputs[p[1]].include[p[2]][p[3]].ref

\* the places where the code returns an array of the input itself: paths of
\* an entry given as an object, ignore given as an array, entries given as one
SharedPlace(p) ==
  CASE p[3] = "ext" -> FALSE
    [] p[3] = "paths" -> InputElements[p[2]].t = "object"
    [] p[3] = "ignore" ->
         FirstPresent(Own(p[2], "ignore"), userOptions.ignore, Undef).t = "array"
    [] p[3] = "entries" -> userOptions.entries.t = "array"

\* the input's array at a shared place
InputRefAt(p) ==
  CASE p[3] = "paths" -> InputElements[p[2]].paths.ref
    [] p[3] = "ignore" -> FirstPresent(Own(p[2], "ignore"), userOptions.ignore, Undef).ref
    [] p[3] = "entries" -> userOptions.entries.ref

C9_NormalizeOnlyReads ==
  [][ Len(outputs') = Len(outputs) + 1 =>
        /\ userOptions' = userOptions
        /\ env' = env
        /\ \A a \in InputAddrs : heap'[a] = heap[a] ]_vars

C9_Witness ==
  /\ Returned
  /\ Len(outputs) >= 2
  /\ userOptions.include.t = "array"
  /\ \E i \in 1..Len(InputElements) :
       /\ InputElements[i].t = "object"
       /\ Present(InputElements[i].ext)
       /\ heap[InputElements[i].ext.ref] # <<>>
  /\ Len(heap) > Len(heap0)
  /\ InputIntact

(* C10: an entry whose own `ignore` or `ext` is the empty sequence gets    *)
(* the empty sequence, not the top-level value nor the default; an entry   *)
(* that omits the field gets the top-level value or the default.           *)
IsEmptyArray(v) == v.t = "array" /\ heap[v.ref] = <<>>

C10_EmptySequenceOverrides ==
  Returned =>
    \A i \in 1..Len(Last.include) :
      /\ IsEmptyArray(Own(i, "ignore")) => OutIgnore(i) = <<>>
      /\ IsEmptyArray(Own(i, "ext")) => OutExt(i) = <<>>
      /\ (~Present(Own(i, "ignore")) /\ ~Present(userOptions.ignore)) =>
           OutIgnore(i) = <<"node_modules">>
      /\ (~Present(Own(i, "ext")) /\ ~Present(userOptions.ext)) =>
           Len(OutExt(i)) = Len(DefaultExt)
      /\ (~Present(Own(i, "ext")) /\ Present(userOptions.ext)) =>
           Len(OutExt(i)) = Len(heap[userOptions.ext.ref])

C10_Witness ==
  /\ Returned
  /\ Present(userOptions.ext) /\ heap[userOptions.ext.ref] # <<>>
  /\ Present(userOptions.ignore)
  /\ \E i \in 1..Len(Last.include) :
       /\ IsEmptyArray(Own(i, "ext"))
       /\ OutExt(i) = <<>>
  /\ \E i \in 1..Len(Last.include) :
       /\ IsEmptyArray(Own(i, "ignore"))
       /\ OutIgnore(i) = <<>>

====
